---- MODULE Spec2Model ----
(***************************************************************************)
(* The inventory client of cli-utils (pkg/inventory/inventory-client.go)   *)
(* and the task that deletes the inventory object                          *)
(* (pkg/apply/task/delete_inv_task.go), as a state machine.                *)
(*                                                                         *)
(* The cluster is a store of inventory objects ("anchors") that carry the  *)
(* inventory label; every call of the client is a sequence of steps, one   *)
(* per round trip to the store, so that a failure of the store, a stopped  *)
(* caller and a second caller can be placed between any two of them.       *)
(***************************************************************************)
EXTENDS Integers, Sequences, FiniteSets, TLC

\* ---------------------------------------------------------------- bounds
MaxObjs == 2
MaxAnchors == 2

\* The object references (object.ObjMetadata) applies can name.
Objs == 1..MaxObjs
\* The names an inventory object can have in the namespace.
Names == 1..MaxAnchors
\* The goroutines that can be inside the client at once.
Callers == {1, 2}

\* ------------------------------------------------------------ data model
\* A nil *resource.Info given as the local inventory (line 195).
NilDesc == 0
\* The local inventory descriptors: nil, or an object of some name.
Descs == {NilDesc} \cup Names

NoErr == "nil"

\* The payload of an inventory object: the encoded set, or data that does
\* not decode.
Payloads == [ok : {TRUE}, objs : SUBSET Objs] \cup {[ok |-> FALSE, objs |-> {}]}

\* A nil *resource.Info held by the client.
NilInfo == [name |-> NilDesc, data |-> [ok |-> TRUE, objs |-> {}]]

\* Inventory.Store followed by Inventory.GetObject: the payload of a set.
Encode(objs) == [ok |-> TRUE, objs |-> objs]

\* Inventory.Load: the set a retrieved inventory object stores, or an error.
Load(info) ==
  IF info.data.ok THEN [objs |-> info.data.objs, err |-> NoErr]
  ELSE [objs |-> {}, err |-> "DecodeError"]

\* object.SetEquals, object.SetDiff, object.Union.
SetEquals(a, b) == (a \ b = {}) /\ (b \ a = {})
SetDiff(a, b) == {x \in a : x \notin b}
Union(a, b) == a \cup b

\* The states of the store: some of the names carry an inventory object.
StoreStates == UNION {[ns -> Payloads] : ns \in SUBSET Names}

Range(s) == {s[k] : k \in DOMAIN s}

\* The orders in which a label query can return the inventory objects.
Listings(st) ==
  {l \in [1..Cardinality(DOMAIN st) -> DOMAIN st] : Range(l) = DOMAIN st}

\* The resource.Info values the builder returns for a listing.
Infos(st, l) == [k \in DOMAIN l |-> [name |-> l[k], data |-> st[l[k]]]]

\* sort.Sort(ordering.SortableInfos(invInfos)): inventory objects of one
\* kind and namespace are ordered by name.
SortInfos(infos) ==
  [k \in DOMAIN infos |->
     CHOOSE e \in Range(infos) :
       Cardinality({f \in Range(infos) : f.name < e.name}) = k - 1]

\* ------------------------------------------------------ calls to the store
\* Each returns the store after the call, the error the caller sees, and
\* whether a request was sent (sent = 1) or the call returned before it.
\* `fail` is the store refusing the request (network, permission).

\* applyInventoryObj without its dry-run test.
applyInventoryObjNoDryRun(st, dry, info, fail) ==
  IF info = NilInfo THEN [store |-> st, err |-> "NilObject", sent |-> 0]
  ELSE IF fail THEN [store |-> st, err |-> "StoreError", sent |-> 1]
  ELSE IF info.name \notin DOMAIN st
    THEN [store |-> st, err |-> "NotFound", sent |-> 1]
  ELSE [store |-> [st EXCEPT ![info.name] = info.data], err |-> NoErr, sent |-> 1]

\* applyInventoryObj answering success without the object replaced.
applyInventoryObjNoWrite(st, dry, info, fail) ==
  IF dry THEN [store |-> st, err |-> NoErr, sent |-> 0]
  ELSE IF info = NilInfo THEN [store |-> st, err |-> "NilObject", sent |-> 0]
  ELSE IF fail THEN [store |-> st, err |-> "StoreError", sent |-> 1]
  ELSE [store |-> st, err |-> NoErr, sent |-> 1]

\* applyInventoryObj: helper.Replace of the object named info.name.
applyInventoryObj(st, dry, info, fail) ==
  IF dry THEN [store |-> st, err |-> NoErr, sent |-> 0]
  ELSE IF info = NilInfo THEN [store |-> st, err |-> "NilObject", sent |-> 0]
  ELSE IF fail THEN [store |-> st, err |-> "StoreError", sent |-> 1]
  ELSE IF info.name \notin DOMAIN st
    THEN [store |-> st, err |-> "NotFound", sent |-> 1]
  ELSE [store |-> [st EXCEPT ![info.name] = info.data], err |-> NoErr, sent |-> 1]

\* createInventoryObj: helper.Create of an object named info.name.
createInventoryObj(st, dry, info, fail) ==
  IF dry THEN [store |-> st, err |-> NoErr, sent |-> 0]
  ELSE IF info = NilInfo THEN [store |-> st, err |-> "NilObject", sent |-> 0]
  ELSE IF fail THEN [store |-> st, err |-> "StoreError", sent |-> 1]
  ELSE IF info.name \in DOMAIN st
    THEN [store |-> st, err |-> "AlreadyExists", sent |-> 1]
  ELSE [store |-> [n \in DOMAIN st \cup {info.name} |->
                     IF n = info.name THEN info.data ELSE st[n]],
        err |-> NoErr, sent |-> 1]

\* DeleteInventoryObj: helper.Delete of the object named `name`
\* (NilDesc: a nil info).  The dry-run test comes before the nil test.
DeleteInventoryObj(st, dry, name, fail) ==
  IF dry THEN [store |-> st, err |-> NoErr, sent |-> 0]
  ELSE IF name = NilDesc THEN [store |-> st, err |-> "NilObject", sent |-> 0]
  ELSE IF fail THEN [store |-> st, err |-> "StoreError", sent |-> 1]
  ELSE IF name \notin DOMAIN st
    THEN [store |-> st, err |-> "NotFound", sent |-> 1]
  ELSE [store |-> [n \in DOMAIN st \ {name} |-> st[n]], err |-> NoErr, sent |-> 1]

\* ----------------------------------------------- mergeClusterInventory
\* mergeClusterInventory without its sort: the first object listed is retained.
mergeOrderAsListed(infos) == infos

\* The order in which mergeClusterInventory takes the retrieved objects:
\* sorted, the first is retained.
mergeOrder(infos) == SortInfos(infos)

\* Whether some retrieved object fails to Load (lines 258-270).
mergeLoadFails(infos) == \E k \in DOMAIN infos : Load(infos[k]).err # NoErr

\* The union of the sets of all the retrieved objects (lines 258-272).
retainedObjs(infos) == UNION {Load(infos[k]).objs : k \in DOMAIN infos}

\* The retained object carrying the union (lines 273-279).
retainInfoOf(infos) ==
  [name |-> infos[1].name, data |-> Encode(retainedObjs(infos))]

\* GetClusterObjs dropping the error of Load: what does not decode reads as
\* the empty set.
clusterObjsOfNoLoadError(found, lookupErr) ==
  IF lookupErr # NoErr THEN [objs |-> {}, err |-> lookupErr]
  ELSE IF found = NilInfo THEN [objs |-> {}, err |-> NoErr]
  ELSE [objs |-> Load(found).objs, err |-> NoErr]

\* GetClusterObjs after its lookup returned (found, lookupErr): lines 174-182.
clusterObjsOf(found, lookupErr) ==
  IF lookupErr # NoErr THEN [objs |-> {}, err |-> lookupErr]
  ELSE IF found = NilInfo THEN [objs |-> {}, err |-> NoErr]
  ELSE Load(found)

\* ----------------------------------------------------------------- state
VARIABLES
  store,     \* the inventory objects in the cluster: name -> payload
  dryRun,    \* cic.dryRun
  call,      \* per caller: the client call it is in, and the call's locals
  probe,     \* per caller: what its current call did to the store
  prev,      \* per caller: the call before, when this call repeats it
  task,      \* per DeleteInvTask: its goroutine's position, and InvInfo
  received,  \* what the reader of TaskContext.TaskChannel() has received
  sched,     \* per task: what the task runner did with its timeout
  context,   \* the TaskContext: whether its channel has a reader waiting,
             \* and the status it keeps per object
  applied    \* the objects the callers have applied, going by the results
             \* they have taken: those stored at the start, with those given
             \* to a successful Merge, or those given to a successful Replace

vars == <<store, dryRun, call, probe, prev, task, received, sched, context,
         applied>>

IdleCall ==
  [pc |-> "idle", op |-> "none", desc |-> NilDesc, objs |-> {}, phase |-> 0,
   infos |-> <<>>, i |-> 0, retainInfo |-> NilInfo, found |-> NilInfo,
   lookupErr |-> NoErr, clusterInv |-> NilInfo, toApply |-> NilInfo,
   ret |-> {}, err |-> NoErr]

\* A call that has just been entered.
Entered(o, d, x, first) ==
  [IdleCall EXCEPT !.pc = first, !.op = o, !.desc = d, !.objs = x, !.phase = 1]

\* A call that has returned (r, e); its locals are gone.
Returned(c, r, e) ==
  [IdleCall EXCEPT !.pc = "done", !.op = c.op, !.desc = c.desc,
                   !.objs = c.objs, !.ret = r, !.err = e]

NoProbe ==
  [store0 |-> <<>>, dry0 |-> FALSE, failed |-> FALSE, overlap |-> FALSE,
   creates |-> 0, replaces |-> 0, deletes |-> 0]

\* The probe after a call to the store that returned r.
Probed(pr, kind, r) ==
  [pr EXCEPT !.failed = @ \/ (r.sent = 1 /\ r.err # NoErr),
             !.creates = @ + (IF kind = "create" THEN r.sent ELSE 0),
             !.replaces = @ + (IF kind = "replace" THEN r.sent ELSE 0),
             !.deletes = @ + (IF kind = "delete" THEN r.sent ELSE 0)]

NoPrev ==
  [any |-> FALSE, op |-> "none", desc |-> NilDesc, objs |-> {}, ret |-> {},
   err |-> NoErr, store0 |-> <<>>, dry0 |-> FALSE]

\* What is kept of a finished call c with probe pr.
Summary(c, pr) ==
  [any |-> TRUE, op |-> c.op, desc |-> c.desc, objs |-> c.objs, ret |-> c.ret,
   err |-> c.err, store0 |-> pr.store0, dry0 |-> pr.dry0]

IdleTask == [pc |-> "none", InvInfo |-> NilDesc]

\* A TaskContext whose channel is being read and that has recorded no object.
DrainedContext == [reading |-> TRUE, status |-> {}]

taskVars == <<task, received, sched, context>>

\* ------------------------------------------------------- entering a call
\* Whether caller p, having finished a call, may make the same call (o, d, x)
\* once more with the finished one kept in prev for comparison: the store
\* answered all the requests of the finished call, it was itself a first
\* call, and the second call is not a dry run.
MayRepeat(p, o, d, x) ==
  /\ call[p].pc = "done"
  /\ call[p].op = o /\ call[p].desc = d /\ call[p].objs = x
  /\ ~probe[p].failed
  /\ ~prev[p].any
  /\ ~dryRun

\* Caller q is inside a call of the client.
InCall(q) == call[q].pc \notin {"idle", "done"}

\* Caller p enters operation o with local inventory d and objects x.  When
\* another caller is inside a call, the two calls overlap.
Enter(p, o, d, x, first) ==
  /\ call[p].pc = "idle" \/ MayRepeat(p, o, d, x)
  /\ call' = [call EXCEPT ![p] = Entered(o, d, x, first)]
  /\ probe' = [q \in Callers |->
                 IF q = p
                 THEN [NoProbe EXCEPT
                         !.store0 = store, !.dry0 = dryRun,
                         !.overlap = \E r \in Callers \ {p} : InCall(r)]
                 ELSE IF InCall(q) THEN [probe[q] EXCEPT !.overlap = TRUE]
                 ELSE probe[q]]
  /\ prev' = [prev EXCEPT ![p] =
                IF call[p].pc = "done" THEN Summary(call[p], probe[p])
                ELSE NoPrev]
  /\ UNCHANGED <<store, dryRun>>

\* Caller p has used the result of its call and is free for any other.
Forget(p) ==
  /\ call[p].pc = "done"
  /\ call' = [call EXCEPT ![p] = IdleCall]
  /\ probe' = [probe EXCEPT ![p] = NoProbe]
  /\ prev' = [prev EXCEPT ![p] = NoPrev]
  /\ UNCHANGED <<store, dryRun, taskVars, applied>>

CallGetClusterObjs(p, d) ==
  /\ Enter(p, "GetClusterObjs", d, {}, "lookup")
  /\ UNCHANGED <<taskVars, applied>>

CallMerge(p, d, x) ==
  /\ Enter(p, "Merge", d, x, "lookup")
  /\ UNCHANGED <<taskVars, applied>>

CallReplace(p, d, x) ==
  /\ Enter(p, "Replace", d, x, "lookup")
  /\ UNCHANGED <<taskVars, applied>>

CallDeleteInventoryObj(p, d) ==
  /\ Enter(p, "DeleteInventoryObj", d, {}, "delete")
  /\ UNCHANGED <<taskVars, applied>>

\* SetDryRun: called while no call is in flight.
SetDryRun(b) ==
  /\ \A p \in Callers : call[p].pc \in {"idle", "done"}
  /\ \A g \in Callers : task[g].pc \in {"none", "delivered"}
  /\ dryRun # b
  /\ dryRun' = b
  /\ UNCHANGED <<store, call, probe, prev, taskVars, applied>>

\* --------------------------------------- after getClusterInventoryInfo
\* Each operator takes the call c whose lookup has returned (c.found,
\* c.lookupErr) and gives the call at its next request to the store, or
\* returned.

\* GetClusterObjs that does not Load the inventory object it found.
GetClusterObjsReturnNoLoad(c) == Returned(c, {}, c.lookupErr)

\* GetClusterObjs returns what its lookup found (lines 174-182).
GetClusterObjsReturn(c) ==
  LET co == clusterObjsOf(c.found, c.lookupErr) IN Returned(c, co.objs, co.err)

\* Merge storing the applied objects alone.
mergeUnionObjsOnlyApplied(clusterObjs, objs) == objs

\* The objects to prune and the objects to store (Merge, lines 113-114).
mergePruneIds(clusterObjs, objs) == SetDiff(clusterObjs, objs)
mergeUnionObjs(clusterObjs, objs) == Union(clusterObjs, objs)

\* Merge creating the first inventory object without the objects in it.
MergeLookedNoStore(c) ==
  IF c.lookupErr # NoErr THEN Returned(c, {}, c.lookupErr)
  ELSE IF c.found = NilInfo
    THEN [c EXCEPT !.pc = "create",
                   !.toApply = [name |-> c.desc, data |-> Encode({})]]
  ELSE [c EXCEPT !.pc = "lookup", !.phase = 2,
                 !.clusterInv = c.found, !.found = NilInfo]

\* Merge after getClusterInventoryInfo (lines 85-99): without an inventory
\* object it goes on to create one, with one it calls GetClusterObjs.
MergeLooked(c) ==
  IF c.lookupErr # NoErr THEN Returned(c, {}, c.lookupErr)
  ELSE IF c.found = NilInfo
    THEN [c EXCEPT !.pc = "create",
                   !.toApply = [name |-> c.desc, data |-> Encode(c.objs)]]
  ELSE [c EXCEPT !.pc = "lookup", !.phase = 2,
                 !.clusterInv = c.found, !.found = NilInfo]

\* Merge without the test for equal sets: it always writes.
MergeCompareAlwaysWrites(c) ==
  LET co == clusterObjsOf(c.found, c.lookupErr) IN
    IF co.err # NoErr THEN Returned(c, {}, co.err)
    ELSE IF ~dryRun
      THEN [c EXCEPT !.pc = "apply",
                     !.found = NilInfo,
                     !.ret = mergePruneIds(co.objs, c.objs),
                     !.toApply =
                       [name |-> c.clusterInv.name,
                        data |-> Encode(mergeUnionObjs(co.objs, c.objs))]]
    ELSE Returned(c, mergePruneIds(co.objs, c.objs), NoErr)

\* Merge leaving in dry-run before it has computed the objects to prune.
MergeCompareDryRunEarly(c) ==
  LET co == clusterObjsOf(c.found, c.lookupErr) IN
    IF co.err # NoErr THEN Returned(c, {}, co.err)
    ELSE IF dryRun \/ SetEquals(c.objs, co.objs) THEN Returned(c, {}, NoErr)
    ELSE [c EXCEPT !.pc = "apply",
                   !.found = NilInfo,
                   !.ret = mergePruneIds(co.objs, c.objs),
                   !.toApply =
                     [name |-> c.clusterInv.name,
                      data |-> Encode(mergeUnionObjs(co.objs, c.objs))]]

\* Merge after its GetClusterObjs (lines 105-126).
MergeCompare(c) ==
  LET co == clusterObjsOf(c.found, c.lookupErr) IN
    IF co.err # NoErr THEN Returned(c, {}, co.err)
    ELSE IF SetEquals(c.objs, co.objs) THEN Returned(c, {}, NoErr)
    ELSE IF ~dryRun
      THEN [c EXCEPT !.pc = "apply",
                     !.found = NilInfo,
                     !.ret = mergePruneIds(co.objs, c.objs),
                     !.toApply =
                       [name |-> c.clusterInv.name,
                        data |-> Encode(mergeUnionObjs(co.objs, c.objs))]]
    ELSE Returned(c, mergePruneIds(co.objs, c.objs), NoErr)

\* Replace without the test for equal sets: it always goes on to write.
ReplaceCompareAlwaysWrites(c) ==
  LET co == clusterObjsOf(c.found, c.lookupErr) IN
    IF co.err # NoErr THEN Returned(c, {}, co.err)
    ELSE [c EXCEPT !.pc = "lookup", !.phase = 2, !.found = NilInfo]

\* Replace after its GetClusterObjs (lines 139-146).
ReplaceCompare(c) ==
  LET co == clusterObjsOf(c.found, c.lookupErr) IN
    IF co.err # NoErr THEN Returned(c, {}, co.err)
    ELSE IF SetEquals(c.objs, co.objs) THEN Returned(c, {}, NoErr)
    ELSE [c EXCEPT !.pc = "lookup", !.phase = 2, !.found = NilInfo]

\* Replace after getClusterInventoryInfo (lines 147-161).  Without an
\* inventory object GetObject has nothing to return an object from: the call
\* does not succeed.
ReplaceLooked(c) ==
  IF c.lookupErr # NoErr THEN Returned(c, {}, c.lookupErr)
  ELSE IF dryRun THEN Returned(c, {}, NoErr)
  ELSE IF c.found = NilInfo THEN Returned(c, {}, "NilObject")
  ELSE [c EXCEPT !.pc = "apply", !.found = NilInfo, !.clusterInv = c.found,
                 !.toApply = [name |-> c.found.name, data |-> Encode(c.objs)]]

\* getClusterInventoryInfo returns (inv, e) to the call c that made it.
Looked(c, inv, e) ==
  LET c1 == [c EXCEPT !.found = inv, !.lookupErr = e,
                      !.infos = <<>>, !.i = 0, !.retainInfo = NilInfo] IN
    CASE c.op = "GetClusterObjs" -> GetClusterObjsReturn(c1)
      [] c.op = "Merge" /\ c.phase = 1 -> MergeLooked(c1)
      [] c.op = "Merge" /\ c.phase = 2 -> MergeCompare(c1)
      [] c.op = "Replace" /\ c.phase = 1 -> ReplaceCompare(c1)
      [] c.op = "Replace" /\ c.phase = 2 -> ReplaceLooked(c1)

\* ------------------------------------------------ getClusterInventoryInfo
\* getClusterInventoryInfo taking the first object listed, whatever the
\* number of objects.
afterListTakesFirst(c, infos) ==
  IF Len(infos) = 0 THEN Looked(c, NilInfo, NoErr)
  ELSE Looked(c, infos[1], NoErr)

\* getClusterInventoryInfo leaving the duplicates alone when the first object
\* in sort order stores the union already.
afterListSkipsWhenMerged(c, infos) ==
  IF Len(infos) = 0 THEN Looked(c, NilInfo, NoErr)
  ELSE IF Len(infos) = 1 THEN Looked(c, infos[1], NoErr)
  ELSE IF mergeLoadFails(infos) THEN Looked(c, NilInfo, "DecodeError")
  ELSE IF Load(mergeOrder(infos)[1]).objs = retainedObjs(infos)
    THEN Looked(c, mergeOrder(infos)[1], NoErr)
  ELSE [c EXCEPT !.pc = "merge_apply",
                 !.infos = mergeOrder(infos),
                 !.retainInfo = retainInfoOf(mergeOrder(infos))]

\* What getClusterInventoryInfo does with the retrieved objects
\* (lines 229-238, and mergeClusterInventory up to its first write).
afterList(c, infos) ==
  IF Len(infos) = 0 THEN Looked(c, NilInfo, NoErr)
  ELSE IF Len(infos) = 1 THEN Looked(c, infos[1], NoErr)
  ELSE IF mergeLoadFails(infos) THEN Looked(c, NilInfo, "DecodeError")
  ELSE [c EXCEPT !.pc = "merge_apply",
                 !.infos = mergeOrder(infos),
                 !.retainInfo = retainInfoOf(mergeOrder(infos))]

\* The label query for the inventory objects, and what the call does with
\* its answer up to its next request.
getClusterInventoryInfo(p) ==
  /\ call[p].pc = "lookup"
  /\ IF call[p].desc = NilDesc
     THEN /\ call' = [call EXCEPT ![p] = Looked(@, NilInfo, "NilInventory")]
          /\ UNCHANGED probe
     ELSE \E fail \in BOOLEAN :
            IF fail
            THEN /\ call' = [call EXCEPT ![p] = Looked(@, NilInfo, "StoreError")]
                 /\ probe' = [probe EXCEPT ![p].failed = TRUE]
            ELSE /\ \E l \in Listings(store) :
                      call' = [call EXCEPT ![p] = afterList(@, Infos(store, l))]
                 /\ UNCHANGED probe
  /\ UNCHANGED <<store, dryRun, prev, taskVars, applied>>

\* mergeClusterInventory going on to the deletes whatever the write returned.
mergeClusterInventoryApplyUnchecked(p) ==
  /\ call[p].pc = "merge_apply"
  /\ \E fail \in BOOLEAN :
       LET r == applyInventoryObj(store, dryRun, call[p].retainInfo, fail) IN
         /\ store' = r.store
         /\ probe' = [probe EXCEPT ![p] = Probed(@, "replace", r)]
         /\ call' = [call EXCEPT ![p] = [@ EXCEPT !.pc = "merge_delete", !.i = 2]]
  /\ UNCHANGED <<dryRun, prev, taskVars, applied>>

\* mergeClusterInventory, line 286: the union is written to the retained
\* object.
mergeClusterInventoryApply(p) ==
  /\ call[p].pc = "merge_apply"
  /\ \E fail \in BOOLEAN :
       LET r == applyInventoryObj(store, dryRun, call[p].retainInfo, fail) IN
         /\ store' = r.store
         /\ probe' = [probe EXCEPT ![p] = Probed(@, "replace", r)]
         /\ call' = [call EXCEPT ![p] =
                       IF r.err # NoErr THEN Looked(@, NilInfo, r.err)
                       ELSE [@ EXCEPT !.pc = "merge_delete", !.i = 2]]
  /\ UNCHANGED <<dryRun, prev, taskVars, applied>>

\* mergeClusterInventory with its delete loop begun at the retained object.
mergeClusterInventoryDeleteFromFirst(p) ==
  /\ call[p].pc = "merge_delete"
  /\ \E fail \in BOOLEAN :
       LET c == call[p]
           r == DeleteInventoryObj(store, dryRun, c.infos[c.i - 1].name, fail) IN
         /\ store' = r.store
         /\ probe' = [probe EXCEPT ![p] = Probed(@, "delete", r)]
         /\ call' = [call EXCEPT ![p] =
                       IF r.err # NoErr THEN Looked(c, NilInfo, r.err)
                       ELSE IF c.i = Len(c.infos)
                         THEN Looked(c, c.retainInfo, NoErr)
                       ELSE [c EXCEPT !.i = c.i + 1]]
  /\ UNCHANGED <<dryRun, prev, taskVars, applied>>

\* mergeClusterInventory, lines 290-296: the other objects are deleted, one
\* per step; after the last the retained object is the lookup's answer.
mergeClusterInventoryDelete(p) ==
  /\ call[p].pc = "merge_delete"
  /\ \E fail \in BOOLEAN :
       LET c == call[p]
           r == DeleteInventoryObj(store, dryRun, c.infos[c.i].name, fail) IN
         /\ store' = r.store
         /\ probe' = [probe EXCEPT ![p] = Probed(@, "delete", r)]
         /\ call' = [call EXCEPT ![p] =
                       IF r.err # NoErr THEN Looked(c, NilInfo, r.err)
                       ELSE IF c.i = Len(c.infos)
                         THEN Looked(c, c.retainInfo, NoErr)
                       ELSE [c EXCEPT !.i = c.i + 1]]
  /\ UNCHANGED <<dryRun, prev, taskVars, applied>>

\* ------------------------------------------------- the writes of the calls
\* Merge, lines 100-102: the first inventory object is created.
MergeCreate(p) ==
  /\ call[p].pc = "create"
  /\ \E fail \in BOOLEAN :
       LET r == createInventoryObj(store, dryRun, call[p].toApply, fail) IN
         /\ store' = r.store
         /\ probe' = [probe EXCEPT ![p] = Probed(@, "create", r)]
         /\ call' = [call EXCEPT ![p] = Returned(@, {}, r.err)]
  /\ UNCHANGED <<dryRun, prev, taskVars, applied>>

\* Merge writing the union less the objects it returns to prune.
MergeApplyDropsPruned(p) ==
  /\ call[p].pc = "apply" /\ call[p].op = "Merge"
  /\ \E fail \in BOOLEAN :
       LET kept == [call[p].toApply EXCEPT
                      !.data = Encode(@.objs \ call[p].ret)]
           r == applyInventoryObj(store, dryRun, kept, fail) IN
         /\ store' = r.store
         /\ probe' = [probe EXCEPT ![p] = Probed(@, "replace", r)]
         /\ call' = [call EXCEPT ![p] = Returned(@, @.ret, r.err)]
  /\ UNCHANGED <<dryRun, prev, taskVars, applied>>

\* Merge, lines 127-133: the union is written; the objects to prune are
\* returned with the error, if any.
MergeApply(p) ==
  /\ call[p].pc = "apply" /\ call[p].op = "Merge"
  /\ \E fail \in BOOLEAN :
       LET r == applyInventoryObj(store, dryRun, call[p].toApply, fail) IN
         /\ store' = r.store
         /\ probe' = [probe EXCEPT ![p] = Probed(@, "replace", r)]
         /\ call' = [call EXCEPT ![p] = Returned(@, @.ret, r.err)]
  /\ UNCHANGED <<dryRun, prev, taskVars, applied>>

\* Replace, lines 162-166: the objects are written.
ReplaceApply(p) ==
  /\ call[p].pc = "apply" /\ call[p].op = "Replace"
  /\ \E fail \in BOOLEAN :
       LET r == applyInventoryObj(store, dryRun, call[p].toApply, fail) IN
         /\ store' = r.store
         /\ probe' = [probe EXCEPT ![p] = Probed(@, "replace", r)]
         /\ call' = [call EXCEPT ![p] = Returned(@, {}, r.err)]
  /\ UNCHANGED <<dryRun, prev, taskVars, applied>>

\* The public DeleteInventoryObj on the local inventory (lines 353-377).
DeleteInventoryObjRun(p) ==
  /\ call[p].pc = "delete"
  /\ \E fail \in BOOLEAN :
       LET r == DeleteInventoryObj(store, dryRun, call[p].desc, fail) IN
         /\ store' = r.store
         /\ probe' = [probe EXCEPT ![p] = Probed(@, "delete", r)]
         /\ call' = [call EXCEPT ![p] = Returned(@, {}, r.err)]
  /\ UNCHANGED <<dryRun, prev, taskVars, applied>>

\* One step of caller p inside a call of the client.
ClientStep(p) ==
  \/ getClusterInventoryInfo(p)
  \/ mergeClusterInventoryApply(p)
  \/ mergeClusterInventoryDelete(p)
  \/ MergeCreate(p)
  \/ MergeApply(p)
  \/ ReplaceApply(p)
  \/ DeleteInventoryObjRun(p)

\* ------------------------------------------------- the client, one caller
\* The cluster may hold any inventory objects when the client is made
\* (NewInventoryClient, line 71: dryRun is false).
Init ==
  /\ store \in StoreStates
  /\ dryRun = FALSE
  /\ call = [p \in Callers |-> IdleCall]
  /\ probe = [p \in Callers |-> NoProbe]
  /\ prev = [p \in Callers |-> NoPrev]
  /\ task = [g \in Callers |-> IdleTask]
  /\ received = <<>>
  /\ sched = [g \in Callers |-> [timedOut |-> FALSE, cleared |-> FALSE]]
  /\ context = DrainedContext
  /\ applied = {}

\* The caller of the serialized client.
Serial == 1

Next ==
  \/ \E d \in Descs : CallGetClusterObjs(Serial, d)
  \/ \E d \in Descs, x \in SUBSET Objs : CallMerge(Serial, d, x)
  \/ \E d \in Descs, x \in SUBSET Objs : CallReplace(Serial, d, x)
  \/ \E d \in Descs : CallDeleteInventoryObj(Serial, d)
  \/ \E b \in BOOLEAN : SetDryRun(b)
  \/ Forget(Serial)
  \/ ClientStep(Serial)

Spec == Init /\ [][Next]_vars

\* ------------------------------------------------------------ DeleteInvTask
\* Start doing the work itself: it returns after the delete and the send.
StartSynchronous(g) ==
  /\ task[g].pc = "none"
  /\ call[g].pc = "idle"
  /\ context.reading
  /\ \E fail \in BOOLEAN :
       LET r == DeleteInventoryObj(store, dryRun, task[g].InvInfo, fail) IN
         /\ store' = r.store
         /\ received' = Append(received, [task |-> g, Err |-> r.err])
  /\ task' = [task EXCEPT ![g].pc = "delivered"]
  /\ UNCHANGED <<dryRun, call, probe, prev, sched, context, applied>>

\* Start (lines 37-43): the goroutine is made and Start returns.
Start(g) ==
  /\ task[g].pc = "none"
  /\ call[g].pc = "idle"
  /\ task' = [task EXCEPT ![g].pc = "spawned"]
  /\ UNCHANGED <<store, dryRun, call, probe, prev, received, sched, context,
                 applied>>

\* The goroutine, line 40: it calls InvClient.DeleteInventoryObj(InvInfo).
TaskDelete(g) ==
  /\ task[g].pc = "spawned"
  /\ Enter(g, "DeleteInventoryObj", task[g].InvInfo, {}, "delete")
  /\ task' = [task EXCEPT ![g].pc = "deleting"]
  /\ UNCHANGED <<received, sched, context, applied>>

\* A result that leaves the error of the call out.
taskResultNoErr(g, err) == [task |-> g, Err |-> NoErr]

\* The result the goroutine sends for the error of the call (line 41).
taskResult(g, err) == [task |-> g, Err |-> err]

\* A send that also records the objects as handled in the context.
TaskSendMarksStatus(g) ==
  /\ task[g].pc = "deleting"
  /\ call[g].pc = "done"
  /\ context.reading
  /\ received' = Append(received, [task |-> g, Err |-> call[g].err])
  /\ task' = [task EXCEPT ![g].pc = "delivered"]
  /\ context' = [context EXCEPT !.status = Objs]
  /\ UNCHANGED <<store, dryRun, call, probe, prev, sched, applied>>

\* The goroutine, line 41: the send on the task channel, which waits for a
\* reader and is taken by it.
TaskSend(g) ==
  /\ task[g].pc = "deleting"
  /\ call[g].pc = "done"
  /\ context.reading
  /\ received' = Append(received, taskResult(g, call[g].err))
  /\ task' = [task EXCEPT ![g].pc = "delivered"]
  /\ UNCHANGED <<store, dryRun, call, probe, prev, sched, context, applied>>

\* The task runner's timeout for the started task fires.
Timeout(g) ==
  /\ task[g].pc # "none"
  /\ ~sched[g].timedOut
  /\ sched' = [sched EXCEPT ![g].timedOut = TRUE]
  /\ UNCHANGED <<store, dryRun, call, probe, prev, task, received, context,
                 applied>>

\* ClearTimeout (line 46) does nothing to the task; that it was called is
\* kept.
ClearTimeout(g) ==
  /\ task[g].pc # "none"
  /\ ~sched[g].cleared
  /\ sched' = [sched EXCEPT ![g].cleared = TRUE]
  /\ UNCHANGED <<store, dryRun, call, probe, prev, task, received, context,
                 applied>>

\* Action() (lines 28-30) and Identifiers() (lines 32-34).
Action(g) == "InventoryAction"
Identifiers(g) == {}

\* The reader of the task channel starts or stops waiting for a value.
ReaderTurns ==
  /\ context' = [context EXCEPT !.reading = ~@]
  /\ UNCHANGED <<store, dryRun, call, probe, prev, task, received, sched,
                 applied>>

\* Another task of the run records the status of an object in the context.
OtherTaskRecords(x) ==
  /\ x \notin context.status
  /\ context' = [context EXCEPT !.status = @ \cup {x}]
  /\ UNCHANGED <<store, dryRun, call, probe, prev, task, received, sched,
                 applied>>

\* A task for some inventory, the client made and any cluster.
InitTask ==
  /\ store \in StoreStates
  /\ dryRun = FALSE
  /\ call = [p \in Callers |-> IdleCall]
  /\ probe = [p \in Callers |-> NoProbe]
  /\ prev = [p \in Callers |-> NoPrev]
  /\ \E d \in Descs : task = [g \in Callers |-> [pc |-> "none", InvInfo |-> d]]
  /\ received = <<>>
  /\ sched = [g \in Callers |-> [timedOut |-> FALSE, cleared |-> FALSE]]
  /\ context = DrainedContext
  /\ applied = {}

NextTask ==
  \/ \E b \in BOOLEAN : SetDryRun(b)
  \/ Start(Serial)
  \/ TaskDelete(Serial)
  \/ DeleteInventoryObjRun(Serial)
  \/ TaskSend(Serial)
  \/ Timeout(Serial)
  \/ ClearTimeout(Serial)

\* The Go scheduler runs a goroutine that can run, and the reader of the
\* task channel receives.
FairTask ==
  /\ WF_vars(TaskDelete(Serial))
  /\ WF_vars(DeleteInventoryObjRun(Serial))
  /\ WF_vars(TaskSend(Serial))

SpecTask == InitTask /\ [][NextTask]_vars /\ FairTask

\* A task in a run whose channel may have no reader waiting and whose other
\* tasks record statuses.
InitStart ==
  /\ store \in StoreStates
  /\ dryRun = FALSE
  /\ call = [p \in Callers |-> IdleCall]
  /\ probe = [p \in Callers |-> NoProbe]
  /\ prev = [p \in Callers |-> NoPrev]
  /\ \E d \in Descs : task = [g \in Callers |-> [pc |-> "none", InvInfo |-> d]]
  /\ received = <<>>
  /\ sched = [g \in Callers |-> [timedOut |-> FALSE, cleared |-> FALSE]]
  /\ context \in [reading : BOOLEAN, status : SUBSET Objs]
  /\ applied = {}

NextStart ==
  \/ Start(Serial)
  \/ TaskDelete(Serial)
  \/ DeleteInventoryObjRun(Serial)
  \/ TaskSend(Serial)
  \/ ReaderTurns
  \/ \E x \in Objs : OtherTaskRecords(x)

SpecStart == InitStart /\ [][NextStart]_vars

\* ------------------------------------------------------------- properties
\* The objects tracked by the inventory objects of a store.
Tracked(st) == UNION {st[n].objs : n \in DOMAIN st}

\* The number of requests that change the store sent by p's current call.
Writes(p) == probe[p].creates + probe[p].replaces + probe[p].deletes

\* The first name, in sort order, among the inventory objects of a store.
FirstName(st) == CHOOSE n \in DOMAIN st : \A m \in DOMAIN st : n <= m

\* Caller p has returned from a call of operation o.
DoneOp(p, o) == call[p].pc = "done" /\ call[p].op = o

\* Caller p has returned from a call of o that was entered with dry-run off.
DoneLive(p, o) == DoneOp(p, o) /\ ~probe[p].dry0

\* p's finished call repeated the call before it, which was entered from the
\* store state st0 with dry-run `dry` and did not meet a store failure.
Repeats(p, dry) == prev[p].any /\ prev[p].dry0 = dry

\* C1: a successful non-dry-run Merge(desc, D) on a single inventory object
\* storing S, with D not set-equal to S, returns exactly S \ D and leaves the
\* object storing exactly S \cup D.
C1_MergePruneAndUnion ==
  \A n \in Names :
    ( /\ DoneLive(Serial, "Merge")
      /\ call[Serial].err = NoErr
      /\ DOMAIN probe[Serial].store0 = {n}
      /\ probe[Serial].store0[n].ok
      /\ probe[Serial].store0[n].objs # call[Serial].objs )
    => /\ call[Serial].ret = probe[Serial].store0[n].objs \ call[Serial].objs
       /\ DOMAIN store = {n}
       /\ store[n].ok
       /\ store[n].objs = probe[Serial].store0[n].objs \cup call[Serial].objs

\* C1's case: such a Merge has returned a non-empty prune set and has added
\* an object to the stored set.
C1_Witness ==
  /\ DoneLive(Serial, "Merge")
  /\ call[Serial].err = NoErr
  /\ Cardinality(DOMAIN probe[Serial].store0) = 1
  /\ call[Serial].ret # {}
  /\ call[Serial].objs \ Tracked(probe[Serial].store0) # {}

\* C2 as claimed: the second of two successive non-dry-run Merge(desc, X)
\* returns an empty prune set and sends no write to the store.
C2_MergeTwiceNoPrune ==
  ( /\ DoneLive(Serial, "Merge")
    /\ Repeats(Serial, FALSE)
    /\ prev[Serial].err = NoErr )
  => /\ call[Serial].ret = {}
     /\ Writes(Serial) = 0

\* C2, amended: the second of two successive non-dry-run Merge(desc, X), the
\* first successful, returns an empty prune set and sends no write when every
\* object stored before the first call is in X (or nothing was stored);
\* otherwise the second call, when it succeeds, returns the same non-empty
\* prune set as the first, the stored objects not in X, and writes the
\* unchanged union once more.
C2_MergeTwice ==
  ( /\ DoneLive(Serial, "Merge")
    /\ Repeats(Serial, FALSE)
    /\ prev[Serial].err = NoErr )
  => IF Tracked(prev[Serial].store0) \subseteq call[Serial].objs
     THEN /\ call[Serial].ret = {}
          /\ Writes(Serial) = 0
          /\ store = probe[Serial].store0
     ELSE call[Serial].err = NoErr
          => /\ call[Serial].ret = Tracked(prev[Serial].store0) \ call[Serial].objs
             /\ call[Serial].ret = prev[Serial].ret
             /\ probe[Serial].replaces = 1 /\ Writes(Serial) = 1
             /\ store = probe[Serial].store0

\* C2's case: the first Merge wrote new objects into an inventory object, the
\* second found nothing to do.
C2_Witness ==
  /\ DoneLive(Serial, "Merge")
  /\ Repeats(Serial, FALSE)
  /\ prev[Serial].err = NoErr
  /\ call[Serial].err = NoErr
  /\ DOMAIN prev[Serial].store0 # {}
  /\ Tracked(prev[Serial].store0) # {}
  /\ Tracked(prev[Serial].store0) \subseteq call[Serial].objs
  /\ Tracked(prev[Serial].store0) # call[Serial].objs
  /\ call[Serial].ret = {}

\* C3: without an inventory object a successful non-dry-run Merge(desc, D)
\* creates exactly one, storing exactly D, sends no replace and no delete, and
\* returns an empty prune set.
C3_FirstApplyCreates ==
  ( /\ DoneLive(Serial, "Merge")
    /\ call[Serial].err = NoErr
    /\ DOMAIN probe[Serial].store0 = {} )
  => /\ DOMAIN store = {call[Serial].desc}
     /\ store[call[Serial].desc].ok
     /\ store[call[Serial].desc].objs = call[Serial].objs
     /\ probe[Serial].creates = 1
     /\ probe[Serial].replaces = 0
     /\ probe[Serial].deletes = 0
     /\ call[Serial].ret = {}

\* C3's case: a first apply of all the objects has created the inventory
\* object.
C3_Witness ==
  /\ DoneLive(Serial, "Merge")
  /\ call[Serial].err = NoErr
  /\ DOMAIN probe[Serial].store0 = {}
  /\ call[Serial].objs = Objs
  /\ DOMAIN store # {}

\* C4: from the same store state and with the same arguments, Merge returns
\* the same prune set and the same error, and GetClusterObjs the same set and
\* the same error, with dry-run on as with dry-run off (the store answering
\* every request of both calls).
C4_DryRunSameResults ==
  \A o \in {"Merge", "GetClusterObjs"} :
    ( /\ DoneLive(Serial, o)
      /\ Repeats(Serial, TRUE)
      /\ prev[Serial].store0 = probe[Serial].store0
      /\ ~probe[Serial].failed )
    => /\ call[Serial].ret = prev[Serial].ret
       /\ call[Serial].err = prev[Serial].err

\* C4's case: a dry-run Merge and then the same Merge with dry-run off, from
\* a store with duplicate inventory objects, have both returned objects to
\* prune.
C4_Witness ==
  /\ DoneLive(Serial, "Merge")
  /\ Repeats(Serial, TRUE)
  /\ prev[Serial].store0 = probe[Serial].store0
  /\ ~probe[Serial].failed
  /\ Cardinality(DOMAIN probe[Serial].store0) > 1
  /\ prev[Serial].ret # {}
  /\ store # probe[Serial].store0

\* What C5 asks of a call entered with dry-run on: it has sent no create, no
\* replace and no delete, the store is as it was, and DeleteInventoryObj has
\* returned success.
DryCallClean(p) ==
  (call[p].pc # "idle" /\ probe[p].dry0)
  => /\ Writes(p) = 0
     /\ store = probe[p].store0
     /\ DoneOp(p, "DeleteInventoryObj") => call[p].err = NoErr

\* C5: while the dry-run flag is set no step of any call changes the store,
\* no create, replace or delete is sent, and DeleteInventoryObj returns
\* success.
C5_DryRunNoMutation ==
  /\ [][dryRun => store' = store]_vars
  /\ [](DryCallClean(Serial))

\* C5's case: a dry-run call has found duplicate inventory objects, has gone
\* through their resolution and has returned.
C5_Witness ==
  /\ DoneOp(Serial, "Replace")
  /\ probe[Serial].dry0
  /\ call[Serial].err = NoErr
  /\ Cardinality(DOMAIN probe[Serial].store0) > 1
  /\ Tracked(store) # call[Serial].objs

\* The store after a resolution of the duplicates of st0: the first object in
\* sort order alone, storing the union.
Resolved(st0) ==
  /\ DOMAIN store = {FirstName(st0)}
  /\ store[FirstName(st0)].ok
  /\ store[FirstName(st0)].objs = Tracked(st0)

\* C6: a non-dry-run lookup that finds more than one inventory object and
\* meets no failure leaves exactly the first in sort order, storing the union
\* of all, whatever the order the store listed them in, the others deleted;
\* the same lookup made again sends no write.
C6_DuplicateResolution ==
  /\ ( /\ DoneLive(Serial, "GetClusterObjs")
       /\ call[Serial].err = NoErr
       /\ Cardinality(DOMAIN probe[Serial].store0) > 1 )
     => /\ Resolved(probe[Serial].store0)
        /\ call[Serial].ret = Tracked(probe[Serial].store0)
        /\ probe[Serial].replaces = 1
        /\ probe[Serial].deletes = Cardinality(DOMAIN probe[Serial].store0) - 1
  /\ ( /\ call[Serial].op \in {"Merge", "Replace"}
       /\ call[Serial].pc = "lookup" /\ call[Serial].phase = 2
       /\ ~probe[Serial].dry0
       /\ Cardinality(DOMAIN probe[Serial].store0) > 1 )
     => Resolved(probe[Serial].store0)
  /\ ( /\ DoneLive(Serial, "GetClusterObjs")
       /\ Repeats(Serial, FALSE)
       /\ prev[Serial].err = NoErr
       /\ Cardinality(DOMAIN prev[Serial].store0) > 1 )
     => /\ Writes(Serial) = 0
        /\ store = probe[Serial].store0

\* C6's case: duplicates storing different sets have been resolved by one
\* lookup, and the lookup has been made again.
C6_Witness ==
  /\ DoneLive(Serial, "GetClusterObjs")
  /\ Repeats(Serial, FALSE)
  /\ prev[Serial].err = NoErr
  /\ Cardinality(DOMAIN prev[Serial].store0) > 1
  /\ \E n \in DOMAIN prev[Serial].store0 :
       prev[Serial].store0[n].objs # Tracked(prev[Serial].store0)
  /\ call[Serial].ret = Tracked(prev[Serial].store0)
  /\ call[Serial].ret # {}

\* C7: in every state of a resolution of duplicates, and after it however it
\* ended, the inventory objects in the store together track every object the
\* duplicates tracked when the lookup began; a duplicate is gone only when the
\* retained object stores the union.
C7_WriteBeforeDelete ==
  ( /\ Cardinality(DOMAIN probe[Serial].store0) > 1
    /\ \/ call[Serial].pc \in {"merge_apply", "merge_delete"}
       \/ call[Serial].op = "GetClusterObjs" /\ call[Serial].pc # "idle" )
  => /\ Tracked(probe[Serial].store0) \subseteq Tracked(store)
     /\ (probe[Serial].deletes > 0 \/ DOMAIN store # DOMAIN probe[Serial].store0)
        => /\ FirstName(probe[Serial].store0) \in DOMAIN store
           /\ store[FirstName(probe[Serial].store0)].ok
           /\ store[FirstName(probe[Serial].store0)].objs
                = Tracked(probe[Serial].store0)

\* C7's case: the resolution has stopped on a store failure at the delete of
\* a duplicate, after the union was written.
C7_Witness ==
  /\ DoneLive(Serial, "GetClusterObjs")
  /\ call[Serial].err # NoErr
  /\ probe[Serial].replaces = 1
  /\ probe[Serial].deletes > 0
  /\ DOMAIN store = DOMAIN probe[Serial].store0
  /\ store # probe[Serial].store0

\* What C8 asks of every state: the reader has received at most one result,
\* and once the goroutine has sent, exactly the result of its call of
\* DeleteInventoryObj: nil if the call succeeded, the error of the store if
\* the store refused the delete.
TaskResultRight ==
  /\ Len(received) <= 1
  /\ task[Serial].pc = "delivered"
     => /\ received = <<[task |-> Serial, Err |-> call[Serial].err]>>
        /\ probe[Serial].failed <=> received[1].Err \in {"StoreError", "NotFound"}
  /\ task[Serial].pc # "delivered" => received = <<>>

\* C8: every Start is followed by exactly one result on the task channel,
\* with the error of DeleteInventoryObj or nil, whether or not the timeout
\* fires or ClearTimeout is called.
C8_OneTaskResult ==
  /\ [](TaskResultRight)
  /\ (task[Serial].pc # "none") ~> (Len(received) = 1)
  /\ [][Len(received) = 1 => received' = received]_vars

\* C8's case: the store has refused the delete, the timeout has fired,
\* ClearTimeout was called, and the reader holds the one result.
C8_Witness ==
  /\ task[Serial].pc = "delivered"
  /\ sched[Serial].timedOut /\ sched[Serial].cleared
  /\ Len(received) = 1
  /\ received[1].Err = "StoreError"

\* C9 as claimed: a non-dry-run GetClusterObjs leaves the store as it was,
\* and returns the stored set, or the empty set without an inventory object.
C9_GetClusterObjsReadOnly ==
  DoneLive(Serial, "GetClusterObjs")
  => /\ store = probe[Serial].store0
     /\ call[Serial].err = NoErr
        => call[Serial].ret = Tracked(probe[Serial].store0)

\* C9, amended: a non-dry-run GetClusterObjs that finds no inventory object
\* or one leaves the store as it was and sends no write; it returns the
\* stored set, or the empty set without an inventory object.  With several
\* inventory objects it resolves the duplicates, which changes the store, and
\* returns the union of their sets.
C9_GetClusterObjs ==
  DoneLive(Serial, "GetClusterObjs")
  => /\ Cardinality(DOMAIN probe[Serial].store0) <= 1
        => /\ store = probe[Serial].store0
           /\ Writes(Serial) = 0
     /\ call[Serial].err = NoErr
        => /\ call[Serial].ret = Tracked(probe[Serial].store0)
           /\ Cardinality(DOMAIN probe[Serial].store0) > 1
              => store # probe[Serial].store0 /\ Writes(Serial) > 0
     /\ call[Serial].err # NoErr => call[Serial].ret = {}

\* C9's case: GetClusterObjs has returned the objects of the one inventory
\* object.
C9_Witness ==
  /\ DoneLive(Serial, "GetClusterObjs")
  /\ call[Serial].err = NoErr
  /\ Cardinality(DOMAIN probe[Serial].store0) = 1
  /\ call[Serial].ret = Objs
  /\ store = probe[Serial].store0

\* C10 as claimed: every operation called with a nil local inventory returns
\* an error and changes nothing in the store, dry-run on or off.
C10_NilDescriptorIsError ==
  (call[Serial].pc = "done" /\ call[Serial].desc = NilDesc)
  => /\ call[Serial].err # NoErr
     /\ store = probe[Serial].store0
     /\ Writes(Serial) = 0

\* Every inventory object of a store decodes.
AllDecode(st) == \A n \in DOMAIN st : st[n].ok

\* C11 as claimed: from every store state, the state without an inventory
\* object included, a non-dry-run Replace(desc, X) that the store answers
\* succeeds and leaves exactly X stored for the inventory.
C11_ReplaceOverwrites ==
  ( /\ DoneLive(Serial, "Replace")
    /\ call[Serial].desc # NilDesc
    /\ ~probe[Serial].failed
    /\ AllDecode(probe[Serial].store0) )
  => /\ call[Serial].err = NoErr
     /\ Tracked(store) = call[Serial].objs

\* Caller p's call began with one inventory object, storing exactly the
\* objects the call was given.
StoredEqualsArg(p) ==
  /\ Cardinality(DOMAIN probe[p].store0) = 1
  /\ AllDecode(probe[p].store0)
  /\ SetEquals(call[p].objs, Tracked(probe[p].store0))

\* C12: when the one inventory object already stores a set equal to the
\* argument, a non-dry-run Replace and a non-dry-run Merge send no create,
\* replace or delete and leave the store as it was; when the store answers
\* the lookup, Replace returns success and Merge an empty prune set.
C12_NoWriteShortCircuit ==
  \A o \in {"Replace", "Merge"} :
    ( /\ DoneLive(Serial, o)
      /\ call[Serial].desc # NilDesc
      /\ StoredEqualsArg(Serial) )
    => /\ Writes(Serial) = 0
       /\ store = probe[Serial].store0
       /\ call[Serial].ret = {}
       /\ ~probe[Serial].failed => call[Serial].err = NoErr

\* C12's case: Replace was given all the objects, which the one inventory
\* object stored already, and has returned success.
C12_Witness ==
  /\ DoneLive(Serial, "Replace")
  /\ StoredEqualsArg(Serial)
  /\ call[Serial].objs = Objs
  /\ call[Serial].err = NoErr
  /\ Writes(Serial) = 0

\* ------------------------------------------------- successive Merge calls
\* The caller takes the result of its call; the objects of a Merge that
\* returned success are from now on among the applied ones, and the objects
\* of a Replace that returned success are from now on the applied ones.
TakeResult(p) ==
  /\ call[p].pc = "done"
  /\ applied' = IF call[p].err # NoErr \/ probe[p].dry0 THEN applied
                ELSE IF call[p].op = "Merge" THEN applied \cup call[p].objs
                ELSE IF call[p].op = "Replace" THEN call[p].objs
                ELSE applied
  /\ call' = [call EXCEPT ![p] = IdleCall]
  /\ probe' = [probe EXCEPT ![p] = NoProbe]
  /\ prev' = [prev EXCEPT ![p] = NoPrev]
  /\ UNCHANGED <<store, dryRun, taskVars>>

\* Any cluster; the objects stored at the start are the applied ones.
InitMerge ==
  /\ store \in StoreStates
  /\ dryRun = FALSE
  /\ call = [p \in Callers |-> IdleCall]
  /\ probe = [p \in Callers |-> NoProbe]
  /\ prev = [p \in Callers |-> NoPrev]
  /\ task = [g \in Callers |-> IdleTask]
  /\ received = <<>>
  /\ sched = [g \in Callers |-> [timedOut |-> FALSE, cleared |-> FALSE]]
  /\ context = DrainedContext
  /\ applied = Tracked(store)

\* One step of caller p inside a call of GetClusterObjs or Merge.
MergeStep(p) ==
  \/ getClusterInventoryInfo(p)
  \/ mergeClusterInventoryApply(p)
  \/ mergeClusterInventoryDelete(p)
  \/ MergeCreate(p)
  \/ MergeApply(p)

\* One caller makes Merge call after Merge call, dry-run off.
NextMerge ==
  \/ \E d \in Descs, x \in SUBSET Objs : CallMerge(Serial, d, x)
  \/ TakeResult(Serial)
  \/ MergeStep(Serial)

SpecMerge == InitMerge /\ [][NextMerge]_vars

\* C13: through any sequence of serialized non-dry-run Merge calls the
\* inventory objects keep tracking every object stored at the start and every
\* object given to a Merge that returned success; the objects a successful
\* Merge returns to prune, and the objects it was given, are tracked when it
\* returns.
C13_MergeNeverDrops ==
  /\ applied \subseteq Tracked(store)
  /\ (DoneLive(Serial, "Merge") /\ call[Serial].err = NoErr)
     => /\ call[Serial].ret \subseteq Tracked(store)
        /\ call[Serial].objs \subseteq Tracked(store)
        /\ Tracked(probe[Serial].store0) \subseteq Tracked(store)

\* C13's case: after earlier calls a Merge given new objects has returned
\* objects to prune, and the store tracks them, the new and the applied ones.
C13_Witness ==
  /\ DoneLive(Serial, "Merge")
  /\ call[Serial].err = NoErr
  /\ call[Serial].ret # {}
  /\ call[Serial].objs \ Tracked(probe[Serial].store0) # {}
  /\ applied # {}
  /\ applied \cup call[Serial].ret \cup call[Serial].objs \subseteq Tracked(store)

\* C14: when the inventory object, or one of the duplicates, holds a payload
\* that does not decode, GetClusterObjs, Merge and Replace return an error,
\* dry-run on or off; Merge returns no objects to prune, no create, replace
\* or delete is sent, and the store is as it was.
C14_MalformedPayloadIsError ==
  \A o \in {"GetClusterObjs", "Merge", "Replace"} :
    (DoneOp(Serial, o) /\ ~AllDecode(probe[Serial].store0))
    => /\ call[Serial].err # NoErr
       /\ o = "Merge" => call[Serial].ret = {}
       /\ Writes(Serial) = 0
       /\ store = probe[Serial].store0

\* C14's case: a non-dry-run Merge of objects has met duplicates, one of them
\* with a payload that does not decode and one storing objects, and has
\* returned the error of the decoder.
C14_Witness ==
  /\ DoneLive(Serial, "Merge")
  /\ Cardinality(DOMAIN probe[Serial].store0) > 1
  /\ ~AllDecode(probe[Serial].store0)
  /\ Tracked(probe[Serial].store0) # {}
  /\ call[Serial].objs # {}
  /\ call[Serial].err = "DecodeError"

\* C15: Start can be taken whenever the task has not been started, with or
\* without a reader on the channel; the step that starts the task only makes
\* the goroutine: the store, the client and the channel are as before, so the
\* delete and the send come after Start has returned.  A failure of the
\* delete is seen only as the Err of the result the reader receives.
C15_StartDoesNotBlock ==
  /\ []((task[Serial].pc = "none" /\ call[Serial].pc = "idle")
        => ENABLED Start(Serial))
  /\ [][(task[Serial].pc = "none" /\ task'[Serial].pc # "none")
        => /\ task'[Serial].pc = "spawned"
           /\ UNCHANGED <<store, call, probe, received, context>>]_vars
  /\ [](task[Serial].pc \in {"none", "spawned"}
        => call[Serial].pc = "idle" /\ received = <<>>)
  /\ [](Len(received) = 1 => received[1].Err = call[Serial].err)

\* C15's case: Start returned, the store then refused the delete, and the
\* goroutine waits to send while no reader is on the channel.
C15_Witness ==
  /\ task[Serial].pc = "deleting"
  /\ call[Serial].pc = "done"
  /\ call[Serial].err = "StoreError"
  /\ ~context.reading
  /\ received = <<>>

\* C18: the task names no member object and is an inventory action; no step
\* of the task or of its goroutine changes the statuses the context keeps;
\* the store changes only by the delete of the task's inventory object; the
\* goroutine makes one call, of DeleteInventoryObj, which sends at most the
\* one delete, and one result is sent.
C18_TaskTouchesNoMember ==
  /\ [](Identifiers(Serial) = {} /\ Action(Serial) = "InventoryAction")
  /\ [][(task' # task \/ call' # call \/ received' # received)
        => context'.status = context.status]_vars
  /\ [][store' # store
        => /\ call[Serial].pc = "delete"
           /\ task[Serial].InvInfo \in DOMAIN store
           /\ store' = [n \in DOMAIN store \ {task[Serial].InvInfo} |-> store[n]]]_vars
  /\ [](/\ call[Serial].op \in {"none", "DeleteInventoryObj"}
        /\ probe[Serial].creates = 0 /\ probe[Serial].replaces = 0
        /\ probe[Serial].deletes <= 1
        /\ Len(received) <= 1
        /\ task[Serial].pc = "delivered"
           => (Len(received) = 1 /\ call[Serial].pc = "done"))

\* C18's case: the task has deleted its inventory object and sent its result
\* while other tasks had recorded statuses, which are as they left them.
C18_Witness ==
  /\ task[Serial].pc = "delivered"
  /\ probe[Serial].deletes = 1
  /\ call[Serial].err = NoErr
  /\ store # probe[Serial].store0
  /\ context.status # {} /\ context.status # Objs

\* ------------------------------------------------ two callers, unserialized
\* The second goroutine using the client.
Racer == 2

\* Any cluster; `applied` keeps the objects stored at the start.
InitRace == InitMerge

\* Each of the two callers makes one Merge call; nothing orders their steps.
NextRace ==
  \/ \E p \in Callers, d \in Names, x \in SUBSET Objs :
       call[p].pc = "idle" /\ CallMerge(p, d, x)
  \/ \E p \in Callers : MergeStep(p)

SpecRace == InitRace /\ [][NextRace]_vars

\* Both callers have returned from a successful non-dry-run Merge on the one
\* inventory object of the cluster.
BothMerged ==
  \A p \in Callers :
    /\ DoneLive(p, "Merge")
    /\ call[p].err = NoErr
    /\ Cardinality(DOMAIN probe[p].store0) = 1

\* C17: after two Merge calls (D1, D2) on the one inventory object storing S,
\* the object stores S \cup D1, S \cup D2 or S \cup D1 \cup D2; when the calls
\* did not overlap it stores S \cup D1 \cup D2.
C17_MergesUnserialized ==
  BothMerged
  => /\ Cardinality(DOMAIN store) = 1
     /\ Tracked(store) \in
          { applied \cup call[Serial].objs,
            applied \cup call[Racer].objs,
            applied \cup call[Serial].objs \cup call[Racer].objs }
     /\ ~probe[Serial].overlap
        => Tracked(store) = applied \cup call[Serial].objs \cup call[Racer].objs

\* C17's case, the lost update: the calls overlapped, both read S before
\* either wrote, and the object stores S \cup D2 without an object of D1.
C17_Witness ==
  /\ BothMerged
  /\ probe[Serial].overlap /\ probe[Racer].overlap
  /\ probe[Serial].store0 = probe[Racer].store0
  /\ Tracked(store) = applied \cup call[Racer].objs
  /\ call[Serial].objs \ Tracked(store) # {}
  /\ call[Serial].ret = {} /\ call[Racer].ret = {}

\* --------------------------------------- first applies racing, and after
\* No inventory object in the cluster yet.
InitHeal ==
  /\ InitMerge
  /\ store = <<>>

\* The racer makes one Merge call; the other caller makes call after call,
\* the first of them possibly while the racer is in its Merge.
NextHeal ==
  \/ \E d \in Names, x \in SUBSET Objs :
       call[Racer].pc = "idle" /\ CallMerge(Racer, d, x)
  \/ \E d \in Names, x \in SUBSET Objs :
       call[Serial].pc = "idle" /\ CallMerge(Serial, d, x)
  \/ \E d \in Names, x \in SUBSET Objs :
       call[Serial].pc = "idle" /\ CallReplace(Serial, d, x)
  \/ \E d \in Names : call[Serial].pc = "idle" /\ CallGetClusterObjs(Serial, d)
  \/ TakeResult(Serial)
  \/ MergeStep(Racer)
  \/ MergeStep(Serial)
  \/ ReplaceApply(Serial)

SpecHeal == InitHeal /\ [][NextHeal]_vars

\* The racer's first apply found no inventory object and created its own.
RacerCreated ==
  /\ DoneLive(Racer, "Merge")
  /\ call[Racer].err = NoErr
  /\ probe[Racer].creates = 1

\* C16: when two first applies (D1 by the caller, since taken into `applied`,
\* and D2 by the racer) have each created an inventory object, a successful
\* non-dry-run call that finds the two leaves exactly one: GetClusterObjs
\* returns D1 \cup D2, which the object stores; Merge(D3) returns what of
\* D1 \cup D2 is not in D3 and leaves D1 \cup D2 \cup D3 stored; Replace(X)
\* leaves X stored.
C16_RaceHealed ==
  \A o \in {"GetClusterObjs", "Merge", "Replace"} :
    ( /\ DoneLive(Serial, o)
      /\ call[Serial].err = NoErr
      /\ Cardinality(DOMAIN probe[Serial].store0) = 2
      /\ RacerCreated )
    => LET both == applied \cup call[Racer].objs IN
         /\ Cardinality(DOMAIN store) = 1
         /\ AllDecode(store)
         /\ o = "GetClusterObjs"
            => call[Serial].ret = both /\ Tracked(store) = both
         /\ o = "Merge"
            => /\ call[Serial].ret = both \ call[Serial].objs
               /\ Tracked(store) = both \cup call[Serial].objs
         /\ o = "Replace" => Tracked(store) = call[Serial].objs

\* C16's case: each of the two first applies created an inventory object
\* with an object of its own, and GetClusterObjs has returned both objects.
C16_Witness ==
  /\ DoneLive(Serial, "GetClusterObjs")
  /\ call[Serial].err = NoErr
  /\ Cardinality(DOMAIN probe[Serial].store0) = 2
  /\ RacerCreated
  /\ applied # {} /\ call[Racer].objs # {}
  /\ applied \cap call[Racer].objs = {}
  /\ call[Serial].ret = applied \cup call[Racer].objs
  /\ Cardinality(DOMAIN store) = 1

\* C19: in every state of a call of GetClusterObjs, Merge or Replace that
\* began with an inventory object in the cluster, and after it however it
\* ended, the first of those objects in sort order (the only one, or the one
\* a resolution retains) is still there; the step that removes the first
\* object, or the last one, is a step of the caller's DeleteInventoryObj.
C19_LastAnchorStays ==
  /\ []((/\ call[Serial].op \in {"GetClusterObjs", "Merge", "Replace"}
         /\ DOMAIN probe[Serial].store0 # {})
        => /\ DOMAIN store # {}
           /\ FirstName(probe[Serial].store0) \in DOMAIN store)
  /\ [][(/\ DOMAIN store # {}
         /\ DOMAIN store' = {} \/ FirstName(store) \notin DOMAIN store')
        => /\ call[Serial].op = "DeleteInventoryObj"
           /\ call[Serial].pc = "delete"
           /\ DOMAIN store' = DOMAIN store \ {call[Serial].desc}]_vars

\* C19's case: a Replace has resolved duplicates, deleting one, the store has
\* then refused its write, and the retained object is there.
C19_Witness ==
  /\ DoneLive(Serial, "Replace")
  /\ Cardinality(DOMAIN probe[Serial].store0) > 1
  /\ call[Serial].err = "StoreError"
  /\ probe[Serial].deletes > 0
  /\ DOMAIN store = {FirstName(probe[Serial].store0)}

\* ---------------------------------------------- the lookup, tried again
InitRetry == InitMerge

\* The caller makes the lookup.
RetryLookup == \E d \in Names : call[Serial].pc = "idle" /\ CallGetClusterObjs(Serial, d)

\* The list, the write of the union and a delete, each answered by the store.
ListAnswered == getClusterInventoryInfo(Serial) /\ ~probe'[Serial].failed
ApplyAnswered == mergeClusterInventoryApply(Serial) /\ ~probe'[Serial].failed
DeleteAnswered == mergeClusterInventoryDelete(Serial) /\ ~probe'[Serial].failed

\* One caller makes the lookup again and again.
NextRetry ==
  \/ RetryLookup
  \/ TakeResult(Serial)
  \/ getClusterInventoryInfo(Serial)
  \/ mergeClusterInventoryApply(Serial)
  \/ mergeClusterInventoryDelete(Serial)

\* The caller goes on, and the store does not refuse a kind of request for
\* ever.
FairRetry ==
  /\ WF_vars(RetryLookup)
  /\ WF_vars(TakeResult(Serial))
  /\ SF_vars(ListAnswered)
  /\ SF_vars(ApplyAnswered)
  /\ SF_vars(DeleteAnswered)

SpecRetry == InitRetry /\ [][NextRetry]_vars /\ FairRetry

\* A lookup has written the union to the retained object and has then
\* returned the error of a refused delete: duplicates remain.
Interrupted ==
  /\ DoneLive(Serial, "GetClusterObjs")
  /\ call[Serial].err = "StoreError"
  /\ probe[Serial].replaces = 1
  /\ probe[Serial].deletes > 0
  /\ Cardinality(DOMAIN store) > 1
  /\ store[FirstName(store)].objs = applied

\* One inventory object is left, and it stores the union of the sets of all
\* the objects there were.
Converged ==
  /\ Cardinality(DOMAIN store) = 1
  /\ AllDecode(store)
  /\ Tracked(store) = applied

\* C20: a resolution of duplicates interrupted by a refused delete, after
\* the union was written, is followed, the lookup being made again until the
\* store answers, by a state with exactly one inventory object, storing the
\* union of the sets of the original objects; and that state stays.
C20_ResolutionConverges ==
  /\ Interrupted ~> Converged
  /\ [][Converged => Converged']_vars

\* C20's case: the interrupted resolution, with the union written over a
\* smaller set of the retained object.
C20_Witness ==
  /\ Interrupted
  /\ probe[Serial].store0[FirstName(store)].objs # applied
  /\ store # probe[Serial].store0

====
